---- MODULE Spec2Model ----
(***************************************************************************)
(* A model of the commodity-portfolio Monte Carlo engine:                  *)
(*   portfolio_analysis.py  calculate_daily_returns,                       *)
(*                          calculate_portfolio_stats,                     *)
(*                          generate_random_portfolios                     *)
(*   portfolio_analysis.py  fetch_commodity_data                           *)
(*   monte_carlo.py         monte_carlo_simulation, calculate_value_at_risk,*)
(*                          calculate_expected_shortfall,                  *)
(*                          analyze_simulation_results                     *)
(*   main.py                run_portfolio_analysis                         *)
(*                                                                         *)
(* Number representation.  Floating-point values are held on exact integer *)
(* grids:                                                                  *)
(*   - a price in a table is an integer; the simulated tables hold powers  *)
(*     of two;                                                             *)
(*   - a log return is an integer number of log units, LogUnit units being *)
(*     the logarithm of 2, so that the log returns of power-of-two prices, *)
(*     their sample means and their sample covariances over up to four     *)
(*     return rows are exact integers;                                     *)
(*   - a simulated price is an integer number of 1/PriceScale;             *)
(*   - a weight is an integer number of hundredths;                        *)
(*   - a percentile and a mean of terminal values are integer numbers of   *)
(*     1/PercentileScale, the mean rounded as a float of MantissaBits bits.*)
(* The special floating-point values nan, inf and -inf are integers far    *)
(* outside the range of every number the model computes.                   *)
(* An n-dimensional array is a sequence of (n-1)-dimensional arrays, and a *)
(* DataFrame is the sequence of its rows.                                  *)
(***************************************************************************)
EXTENDS Integers, Sequences, FiniteSets, TLC

VARIABLES
    pc,               \* position of the running operation
    data,             \* argument: the price table (rows = time, columns = assets)
    weights,          \* argument: the weight vector, in hundredths
    sims,             \* argument: number of simulations
    time_horizon,     \* argument: number of time steps
    random_seed,      \* argument: NoSeed (None) or a seed
    rng,              \* state of the process-wide generator np.random
    rng_at_call,      \* history: the generator state when the running call began
    drawn,            \* history: random numbers drawn by the running call
    returns,          \* local: return matrix, or the result of calculate_daily_returns
    mean_returns,     \* local
    cov_matrix,       \* local
    chol,             \* local
    retried,          \* history: TRUE when the factorization fallback ran
    random_numbers,   \* local
    daily_returns,    \* local
    price_paths,      \* local, then second component of the result
    t,                \* local: loop variable of the path recurrence
    portfolio_paths,  \* local, then first component of the result
    outcome,          \* "none" while running; "returned"; or the exception raised
    first_run,        \* history: seed -> what the first call with that seed returned
    frontier,         \* result of generate_random_portfolios
    stats,            \* result of calculate_portfolio_stats
    confidence_level, \* argument of the risk measures, in hundredths
    risk,             \* result of calculate_expected_shortfall
    analysis,         \* result of analyze_simulation_results
    frontier_call,    \* history: sample count and generator state of the last sampling
    fetch,            \* fetch_commodity_data: position, loop variable, result
    workflow,         \* run_portfolio_analysis: stage, stages entered, result
    written           \* history: rows of price_paths written by the running call

vars == <<pc, data, weights, sims, time_horizon, random_seed, rng, rng_at_call,
          drawn, returns, mean_returns, cov_matrix, chol, retried,
          random_numbers, daily_returns, price_paths, t, portfolio_paths,
          outcome, first_run, frontier, stats, confidence_level, risk,
          analysis, frontier_call, fetch, workflow, written>>

\* the state of the operations other than the simulation
others == <<frontier, stats, confidence_level, risk, analysis, frontier_call,
            fetch, workflow>>

-----------------------------------------------------------------------------
(* Bounds of the model.                                                    *)

MaxRows == 3        \* rows of a price table given to calculate_daily_returns
MaxSims == 2        \* simulation count S
MaxHorizon == 3     \* time horizon T

-----------------------------------------------------------------------------
(* Generic helpers.                                                        *)

NaN == 1000003
PosInf == 1000001
NegInf == 1000002

RECURSIVE SumSeq(_)
SumSeq(s) == IF s = <<>> THEN 0 ELSE Head(s) + SumSeq(Tail(s))

RECURSIVE Pow2(_)
Pow2(k) == IF k <= 0 THEN 1 ELSE 2 * Pow2(k - 1)

\* the root r with lo <= r < hi, found by bisection
RECURSIVE ISqrtBetween(_, _, _)
ISqrtBetween(x, lo, hi) ==
    IF hi - lo <= 1 THEN lo
    ELSE LET mid == (lo + hi) \div 2
         IN IF mid * mid <= x THEN ISqrtBetween(x, mid, hi)
            ELSE ISqrtBetween(x, lo, mid)

\* floor of the square root of x, for 0 <= x < 2^30
ISqrt(x) == ISqrtBetween(x, 0, IF x < 32768 THEN x + 1 ELSE 32768)

Abs(x) == IF x < 0 THEN -x ELSE x

\* the sequences over S of length exactly n
SeqsOfLen(S, n) == [1..n -> S]

-----------------------------------------------------------------------------
(* portfolio_analysis.py: calculate_daily_returns                          *)

\* log units per doubling (np.log on the integer grid)
LogUnit == 12

RECURSIVE Log2Exact(_)
Log2Exact(p) == IF p <= 1 THEN 0 ELSE 1 + Log2Exact(p \div 2)

\* data / data.shift(1) for one cell, then np.log of the quotient:
\* a quotient of two powers of two is handled exactly; a quotient by zero,
\* a zero quotient and a negative quotient give what IEEE arithmetic gives.
LogRatio(p, q) ==
    IF p = NaN \/ q = NaN THEN NaN
    ELSE IF q = 0 THEN (IF p > 0 THEN PosInf ELSE NaN)
    ELSE IF p = 0 THEN NegInf
    ELSE IF (p < 0) # (q < 0) THEN NaN
    ELSE LogUnit * (Log2Exact(Abs(p)) - Log2Exact(Abs(q)))

\* a shift by two rows instead of one
ShiftMutTwo(d) ==
    [i \in 1..Len(d) |-> IF i <= 2 THEN [a \in 1..Len(d[i]) |-> NaN] ELSE d[i - 2]]

\* data.shift(1): every row moves down by one, the first row becomes NaN
Shift(d) ==
    [i \in 1..Len(d) |-> IF i = 1 THEN [a \in 1..Len(d[i]) |-> NaN] ELSE d[i - 1]]

RowHasNaN(row) == \E a \in 1..Len(row) : row[a] = NaN

\* DataFrame.dropna(): the rows without a NaN, in order
RECURSIVE DropNa(_)
DropNa(d) ==
    IF d = <<>> THEN <<>>
    ELSE IF RowHasNaN(Head(d)) THEN DropNa(Tail(d))
    ELSE <<Head(d)>> \o DropNa(Tail(d))

\* a test (data < 0) that lets a zero price through
AnyNonPositiveMutStrict(d) ==
    \E i \in 1..Len(d) : \E a \in 1..Len(d[i]) : d[i][a] # NaN /\ d[i][a] < 0

\* (data <= 0).any().any()
AnyNonPositive(d) ==
    \E i \in 1..Len(d) : \E a \in 1..Len(d[i]) : d[i][a] # NaN /\ d[i][a] <= 0

\* The result of calculate_daily_returns(d): the exception it raises, or the
\* return matrix it returns.
CalculateDailyReturns(d) ==
    IF AnyNonPositive(d)
    THEN [raised |-> "ValueError", value |-> <<>>]
    ELSE LET sh == Shift(d)
             logs == [i \in 1..Len(d) |->
                        [a \in 1..Len(d[i]) |-> LogRatio(d[i][a], sh[i][a])]]
         IN [raised |-> "none", value |-> DropNa(logs)]

-----------------------------------------------------------------------------
(* monte_carlo.py: monte_carlo_simulation, the statistics of lines 46-47   *)

\* column a of a matrix held as a sequence of rows
Column(m, a) == [i \in 1..Len(m) |-> m[i][a]]

\* returns.mean().values: the sample mean of every column
MeanReturns(r) ==
    [a \in 1..Len(r[1]) |-> SumSeq(Column(r, a)) \div Len(r)]

\* returns.cov().values: the sample covariance (ddof = 1) of every column pair
CovMatrix(r) ==
    LET mu == MeanReturns(r)
    IN [a \in 1..Len(r[1]) |->
         [b \in 1..Len(r[1]) |->
            SumSeq([i \in 1..Len(r) |-> (r[i][a] - mu[a]) * (r[i][b] - mu[b])])
                \div (Len(r) - 1)]]

-----------------------------------------------------------------------------
(* np.linalg.cholesky and the fallback of lines 49-57                      *)

\* the square submatrix of m on the given rows and columns
Submatrix(m, rows, cols) ==
    [i \in 1..Len(rows) |-> [j \in 1..Len(cols) |-> m[rows[i]][cols[j]]]]

\* 1..n without its k-th element, as a sequence
Without(n, k) == [i \in 1..(n - 1) |-> IF i < k THEN i ELSE i + 1]

RECURSIVE Det(_)
Det(m) ==
    IF Len(m) = 0 THEN 1
    ELSE IF Len(m) = 1 THEN m[1][1]
    ELSE SumSeq([j \in 1..Len(m) |->
            (IF j % 2 = 1 THEN 1 ELSE -1) * m[1][j]
              * Det(Submatrix(m, Without(Len(m), 1), Without(Len(m), j)))])

Upto(n) == [i \in 1..n |-> i]

\* the j-th leading principal minor; the pivots of the factorization are
\* LeadingMinor(m, j) / LeadingMinor(m, j - 1)
LeadingMinor(m, j) == Det(Submatrix(m, Upto(j), Upto(j)))

\* LAPACK potrf stops with an error at the first pivot that is not positive
PositiveDefinite(m) == \A j \in 1..Len(m) : LeadingMinor(m, j) > 0

\* The lower-triangular factor of a positive definite matrix, entry by entry
\* in closed form: L[j][j]^2 = d(j) / d(j-1), and below the diagonal
\* L[i][j] = M(i,j) / sqrt(d(j) * d(j-1)), with d the leading minors and M(i,j)
\* the minor on rows 1..j-1,i and columns 1..j.  Square roots are floored.
CholeskyFactor(m) ==
    [i \in 1..Len(m) |->
      [j \in 1..Len(m) |->
        IF j > i THEN 0
        ELSE IF j = i
             THEN ISqrt(LeadingMinor(m, j) \div LeadingMinor(m, j - 1))
             ELSE Det(Submatrix(m, Upto(j - 1) \o <<i>>, Upto(j)))
                    \div ISqrt(LeadingMinor(m, j) * LeadingMinor(m, j - 1))]]

\* np.linalg.cholesky(m): the factor, or LinAlgError
Cholesky(m) ==
    IF PositiveDefinite(m)
    THEN [raised |-> "none", value |-> CholeskyFactor(m)]
    ELSE [raised |-> "LinAlgError", value |-> <<>>]

\* a symmetric matrix has no negative eigenvalue exactly when none of its
\* principal minors is negative
PositiveSemiDefinite(m) ==
    \A idx \in SUBSET (1..Len(m)) :
        LET sel == CHOOSE q \in [1..Cardinality(idx) -> idx] :
                      \A x, y \in 1..Cardinality(idx) : x < y => q[x] < q[y]
        IN Det(Submatrix(m, sel, sel)) >= 0

\* Lines 54-56: eigh, negative eigenvalues set to zero, the matrix rebuilt from
\* the eigenvectors.  A matrix without a negative eigenvalue is rebuilt as
\* itself.  A matrix with one is rebuilt as its projection on the matrices
\* without; that projection has a zero eigenvalue and irrational entries in
\* general, and the zero matrix stands for it (a sample covariance matrix has
\* no negative eigenvalue, so the simulation never takes this branch).
ClampAndRebuild(m) ==
    IF PositiveSemiDefinite(m) THEN m
    ELSE [i \in 1..Len(m) |-> [j \in 1..Len(m) |-> 0]]

\* Lines 49-57 as a whole: the factor and whether the fallback ran, or the
\* LinAlgError of the second factorization, which no handler catches.
Factorize(m) ==
    LET first == Cholesky(m)
    IN IF first.raised = "none"
       THEN [raised |-> "none", value |-> first.value, retried |-> FALSE]
       ELSE LET second == Cholesky(ClampAndRebuild(m))
            IN [raised |-> second.raised, value |-> second.value, retried |-> TRUE]

-----------------------------------------------------------------------------
(* The process-wide generator np.random                                    *)

\* number of generator states
RngStates == 8

\* one step of the generator
NextRng(s) == (5 * s + 3) % RngStates

RECURSIVE RngAfter(_, _)
RngAfter(s, k) == IF k = 0 THEN s ELSE RngAfter(NextRng(s), k - 1)

\* a standard-normal draw, on the grid {-1, 0, 1}
NormalOf(s) == (s % 3) - 1

\* a uniform draw of [0, 1), in quarters, on the grid {1, 2, 3}
UniformOf(s) == (s % 3) + 1

\* random_seed = None
NoSeed == -1

\* a seeding that leaves the state of the generator as it was
SeedStateMutKeep(s, seed) == s

\* np.random.seed(seed): the state becomes a function of the seed alone
SeedState(s, seed) == seed % RngStates

\* np.random.normal(size = (T, S, n)) from state s: the array is filled in
\* row-major order, one generator step per entry
NormalArray(s, T, S, n) ==
    [i \in 1..T |-> [j \in 1..S |-> [a \in 1..n |->
        NormalOf(RngAfter(s, ((i - 1) * S + (j - 1)) * n + a))]]]

-----------------------------------------------------------------------------
(* monte_carlo.py: the array arithmetic of lines 61-73                     *)

\* np.tensordot(c, x, axes=1): the last axis of c is summed against the FIRST
\* axis of x; the two lengths must agree
TensordotShapesAgree(c, x) == Len(c[1]) = Len(x)

Tensordot(c, x) ==
    [i \in 1..Len(c) |-> [j \in 1..Len(x[1]) |-> [a \in 1..Len(x[1][1]) |->
        SumSeq([k \in 1..Len(x) |-> c[i][k] * x[k][j][a]])]]]

\* mean_returns.reshape(-1, 1, 1) + correlated_returns: the mean vector lies
\* along the first axis
AddMean(mu, x) ==
    [i \in 1..Len(x) |-> [j \in 1..Len(x[1]) |-> [a \in 1..Len(x[1][1]) |->
        mu[i] + x[i][j][a]]]]

\* simulated prices are multiples of 1 / PriceScale
PriceScale == 4096

\* np.zeros_like(x)
ZerosLike(x) ==
    [i \in 1..Len(x) |-> [j \in 1..Len(x[1]) |-> [a \in 1..Len(x[1][1]) |-> 0]]]

\* a first block left at the zeros of np.zeros_like
SetFirstBlockMutSkip(pp, last) == pp

\* price_paths[0] = last_prices: the price vector is broadcast along the last
\* axis of the first block
SetFirstBlock(pp, last) ==
    [pp EXCEPT ![1] = [j \in 1..Len(pp[1]) |-> [a \in 1..Len(pp[1][1]) |->
                          last[a] * PriceScale]]]

\* p * np.exp(x), the exponential taken on the grid of whole doublings:
\* exp(x) = 2 ^ floor(x / LogUnit)
TimesExp(p, x) ==
    LET k == x \div LogUnit
    IN IF k >= 0 THEN p * Pow2(k) ELSE p \div Pow2(-k)

\* a step that takes the return of the row before
StepBlockMutStale(pp, dr, tt) ==
    [pp EXCEPT ![tt + 1] = [j \in 1..Len(pp[1]) |-> [a \in 1..Len(pp[1][1]) |->
                               TimesExp(pp[tt][j][a], dr[tt][j][a])]]]

\* price_paths[t] = price_paths[t-1] * np.exp(daily_returns[t]), with the
\* zero-based t of the source (block t is the (t+1)-th)
StepBlock(pp, dr, tt) ==
    [pp EXCEPT ![tt + 1] = [j \in 1..Len(pp[1]) |-> [a \in 1..Len(pp[1][1]) |->
                               TimesExp(pp[tt][j][a], dr[tt + 1][j][a])]]]

\* np.sum(price_paths * weights.reshape(-1, 1, 1), axis=0): the weight vector
\* lies along the FIRST axis of price_paths and the sum runs over that axis
WeightedSum(pp, w) ==
    [j \in 1..Len(pp[1]) |-> [a \in 1..Len(pp[1][1]) |->
        SumSeq([i \in 1..Len(pp) |-> w[i] * pp[i][j][a]])]]

\* np.isclose(np.sum(weights), 1, rtol=0.01), the sum in hundredths
SumsToOne(w) == Abs(SumSeq(w) - 100) <= 1

-----------------------------------------------------------------------------
(* Inputs.                                                                 *)

\* prices of the tables given to calculate_daily_returns on its own
PriceValues == {-1, 0, 1, 4}

\* every table of 1..MaxRows rows and one or two asset columns
PriceTables ==
    UNION {SeqsOfLen(SeqsOfLen(PriceValues, n), r) : n \in 1..2, r \in 1..MaxRows}

\* The tables given to the simulation.  Each has at least three rows, and its
\* covariance matrix is either positive definite or has an asset of variance
\* zero, so that the exact arithmetic of the model decides the factorization
\* as the floating-point arithmetic does.
OneAsset == << <<1>>, <<2>>, <<1>> >>
OneAssetConstant == << <<2>>, <<2>>, <<2>> >>
TwoAssets == << <<1, 1>>, <<2, 1>>, <<1, 2>>, <<1, 1>> >>
TwoAssetsOneConstant == << <<1, 1>>, <<1, 2>>, <<1, 1>>, <<1, 2>> >>
TwoAssetsZeroPrice == << <<1, 1>>, <<0, 2>>, <<1, 1>> >>
ThreeAssets == << <<1, 1, 1>>, <<2, 1, 1>>, <<1, 2, 1>>, <<1, 1, 2>>, <<1, 1, 1>> >>

SimTables == {OneAsset, OneAssetConstant, TwoAssets, TwoAssetsOneConstant,
              TwoAssetsZeroPrice, ThreeAssets}

\* weight vectors, in hundredths: sums of 1 and within 1% of 1, a sum outside
\* the tolerance, and negative components
WeightVectors == { <<100>>, <<101>>, <<95>>,
                   <<60, 40>>, <<300, -200>>, <<60, 30>>,
                   <<50, 30, 20>>, <<-60, 80, 80>> }

Seeds == {NoSeed, 3}

-----------------------------------------------------------------------------
(* State.                                                                  *)

ErrWeightCount == "ValueError: Number of weights must match number of assets"
ErrWeightSum == "ValueError: Weights must sum to 1"
ErrPrices == "ValueError: Price data must be positive for log returns"
ErrShape == "ValueError: shape-mismatch for sum"
ErrNotPositiveDefinite == "LinAlgError: Matrix is not positive definite"

\* the locals and results of an operation before it has set them
NoLocals ==
    /\ returns = <<>>
    /\ mean_returns = <<>>
    /\ cov_matrix = <<>>
    /\ chol = <<>>
    /\ retried = FALSE
    /\ random_numbers = <<>>
    /\ daily_returns = <<>>
    /\ price_paths = <<>>
    /\ t = 0
    /\ portfolio_paths = <<>>
    /\ outcome = "none"
    /\ drawn = 0
    /\ written = <<>>

NoArguments ==
    /\ data = <<>>
    /\ weights = <<>>
    /\ sims = 0
    /\ time_horizon = 0
    /\ random_seed = NoSeed

NotCalled == "not called"

\* the dictionary of analyze_simulation_results before the call
NoAnalysis ==
    [raised |-> NotCalled, mean |-> 0, median |-> 0, std_dev |-> 0, min |-> 0,
     max |-> 0, var_95 |-> 0, cvar_95 |-> 0, percentile_5 |-> 0,
     percentile_25 |-> 0, percentile_75 |-> 0, percentile_95 |-> 0]

NoFrontierCall == [num_portfolios |-> 0, rng |-> 0]

NoFetch ==
    [pc |-> "idle", max_retries |-> 0, attempt |-> 0, downloads |-> 0,
     result |-> "none", table |-> <<>>, log |-> <<>>, error |-> "none"]

NoWorkflow ==
    [stage |-> NotCalled, entered |-> <<>>, error |-> "none",
     collaborators_ok |-> TRUE, sims |-> 0, time_horizon |-> 0]

NoOthers ==
    /\ frontier = [raised |-> NotCalled, returns |-> <<>>, volatilities |-> <<>>,
                   weights |-> <<>>, sharpe_ratios |-> <<>>]
    /\ stats = [raised |-> NotCalled, port_return |-> 0, port_volatility |-> 0,
                sharpe_ratio |-> 0]
    /\ confidence_level = 0
    /\ risk = [raised |-> NotCalled, var |-> 0, selected |-> <<>>, es |-> 0]
    /\ analysis = NoAnalysis
    /\ frontier_call = NoFrontierCall
    /\ fetch = NoFetch
    /\ workflow = NoWorkflow

\* The process has imported the modules; the generator is in a state the
\* operating system's entropy chose.
Init ==
    /\ pc = "idle"
    /\ NoArguments
    /\ NoLocals
    /\ rng \in 0..(RngStates - 1)
    /\ rng_at_call = rng
    /\ first_run = <<>>
    /\ NoOthers

args == <<data, weights, sims, time_horizon, random_seed>>
locals == <<returns, mean_returns, cov_matrix, chol, retried, random_numbers,
            daily_returns, price_paths, t, portfolio_paths, written>>

\* raise: the operation ends with the exception
Raise(e) == outcome' = e /\ pc' = "done"

-----------------------------------------------------------------------------
(* monte_carlo_simulation, statement by statement                          *)

\* lines 33-38: the call and the validation of the weights
MCCall(d, w, S, T, seed) ==
    /\ pc = "idle"
    /\ data' = d /\ weights' = w /\ sims' = S /\ time_horizon' = T
    /\ random_seed' = seed
    /\ rng_at_call' = rng
    /\ IF Len(w) # Len(d[1]) THEN Raise(ErrWeightCount)
       ELSE IF ~SumsToOne(w) THEN Raise(ErrWeightSum)
       ELSE pc' = "seed" /\ outcome' = "none"
    /\ UNCHANGED <<rng, drawn, locals, first_run, others>>

\* lines 41-42
MCSeed ==
    /\ pc = "seed"
    /\ rng' = IF random_seed # NoSeed THEN SeedState(rng, random_seed) ELSE rng
    /\ pc' = "returns"
    /\ UNCHANGED <<args, rng_at_call, drawn, locals, outcome, first_run, others>>

\* lines 45-47
MCReturns ==
    /\ pc = "returns"
    /\ LET r == CalculateDailyReturns(data)
       IN IF r.raised # "none"
          THEN /\ Raise(ErrPrices)
               /\ UNCHANGED <<returns, mean_returns, cov_matrix>>
          ELSE /\ returns' = r.value
               /\ mean_returns' = MeanReturns(r.value)
               /\ cov_matrix' = CovMatrix(r.value)
               /\ pc' = "cholesky"
               /\ UNCHANGED outcome
    /\ UNCHANGED <<args, rng, rng_at_call, drawn, chol, retried, random_numbers,
                   daily_returns, price_paths, t, portfolio_paths, first_run, others, written>>

\* lines 49-57
MCFactorize ==
    /\ pc = "cholesky"
    /\ LET f == Factorize(cov_matrix)
       IN /\ retried' = f.retried
          /\ IF f.raised # "none"
             THEN Raise(ErrNotPositiveDefinite) /\ UNCHANGED chol
             ELSE chol' = f.value /\ pc' = "draw" /\ UNCHANGED outcome
    /\ UNCHANGED <<args, rng, rng_at_call, drawn, returns, mean_returns, cov_matrix,
                   random_numbers, daily_returns, price_paths, t, portfolio_paths,
                   first_run, others, written>>

\* line 60
MCDraw ==
    /\ pc = "draw"
    /\ random_numbers' = NormalArray(rng, time_horizon, sims, Len(weights))
    /\ rng' = RngAfter(rng, time_horizon * sims * Len(weights))
    /\ drawn' = time_horizon * sims * Len(weights)
    /\ pc' = "correlate"
    /\ UNCHANGED <<args, rng_at_call, returns, mean_returns, cov_matrix, chol,
                   retried, daily_returns, price_paths, t, portfolio_paths, outcome,
                   first_run, others, written>>

\* lines 61-62
MCCorrelate ==
    /\ pc = "correlate"
    /\ IF ~TensordotShapesAgree(chol, random_numbers)
       THEN Raise(ErrShape) /\ UNCHANGED daily_returns
       ELSE /\ daily_returns' = AddMean(mean_returns, Tensordot(chol, random_numbers))
            /\ pc' = "init"
            /\ UNCHANGED outcome
    /\ UNCHANGED <<args, rng, rng_at_call, drawn, returns, mean_returns, cov_matrix,
                   chol, retried, random_numbers, price_paths, t, portfolio_paths,
                   first_run, others, written>>

\* lines 65-67, and the entry of the loop of line 69 with t = 1
MCInitPaths ==
    /\ pc = "init"
    /\ price_paths' = SetFirstBlock(ZerosLike(daily_returns), data[Len(data)])
    /\ t' = 1
    /\ written' = <<0>>
    /\ pc' = "loop"
    /\ UNCHANGED <<args, rng, rng_at_call, drawn, returns, mean_returns, cov_matrix,
                   chol, retried, random_numbers, daily_returns, portfolio_paths,
                   outcome, first_run, others>>

\* lines 69-70: one iteration of the loop over range(1, time_horizon)
MCStep ==
    /\ pc = "loop"
    /\ t < time_horizon
    /\ price_paths' = StepBlock(price_paths, daily_returns, t)
    /\ t' = t + 1
    /\ written' = Append(written, t)
    /\ UNCHANGED <<pc, args, rng, rng_at_call, drawn, returns, mean_returns,
                   cov_matrix, chol, retried, random_numbers, daily_returns,
                   portfolio_paths, outcome, first_run, others>>

\* lines 73-75: the loop is over; aggregation and return
MCAggregate ==
    /\ pc = "loop"
    /\ t >= time_horizon
    /\ portfolio_paths' = WeightedSum(price_paths, weights)
    /\ outcome' = "returned"
    /\ pc' = "done"
    /\ UNCHANGED <<args, rng, rng_at_call, drawn, returns, mean_returns, cov_matrix,
                   chol, retried, random_numbers, daily_returns, price_paths, t,
                   first_run, others, written>>

\* the caller has taken the result or the exception; the locals are gone and
\* the generator keeps its state
ClearLocals ==
    /\ returns' = <<>>
    /\ mean_returns' = <<>>
    /\ cov_matrix' = <<>>
    /\ chol' = <<>>
    /\ retried' = FALSE
    /\ random_numbers' = <<>>
    /\ daily_returns' = <<>>
    /\ price_paths' = <<>>
    /\ t' = 0
    /\ portfolio_paths' = <<>>
    /\ outcome' = "none"
    /\ drawn' = 0
    /\ written' = <<>>

ClearArguments ==
    /\ data' = <<>>
    /\ weights' = <<>>
    /\ sims' = 0
    /\ time_horizon' = 0
    /\ random_seed' = NoSeed

MCFinish ==
    /\ pc = "done"
    /\ pc' = "idle"
    /\ ClearLocals
    /\ ClearArguments
    /\ rng_at_call' = rng
    /\ UNCHANGED <<rng, first_run, others>>

MCRun ==
    \/ MCSeed
    \/ MCReturns
    \/ MCFactorize
    \/ MCDraw
    \/ MCCorrelate
    \/ MCInitPaths
    \/ MCStep
    \/ MCAggregate

Next ==
    \/ \E d \in SimTables, w \in WeightVectors, S \in 1..MaxSims,
          T \in 1..MaxHorizon, seed \in Seeds : MCCall(d, w, S, T, seed)
    \/ MCRun
    \/ MCFinish

Spec == Init /\ [][Next]_vars

-----------------------------------------------------------------------------
(* calculate_daily_returns on its own                                      *)

InitReturns ==
    /\ pc = "idle"
    /\ data \in PriceTables
    /\ weights = <<>> /\ sims = 0 /\ time_horizon = 0 /\ random_seed = NoSeed
    /\ NoLocals
    /\ rng = 0
    /\ rng_at_call = 0
    /\ first_run = <<>>
    /\ NoOthers

\* lines 51-55 of portfolio_analysis.py; the table is read, never written
DailyReturnsCall ==
    /\ pc = "idle"
    /\ LET r == CalculateDailyReturns(data)
       IN /\ returns' = r.value
          /\ outcome' = IF r.raised = "none" THEN "returned" ELSE ErrPrices
    /\ pc' = "done"
    /\ UNCHANGED <<args, rng, rng_at_call, drawn, mean_returns, cov_matrix, chol,
                   retried, random_numbers, daily_returns, price_paths, t,
                   portfolio_paths, first_run, others, written>>

NextReturns == DailyReturnsCall

SpecReturns == InitReturns /\ [][NextReturns]_vars

-----------------------------------------------------------------------------
(* portfolio_analysis.py: calculate_portfolio_stats and                    *)
(* generate_random_portfolios                                              *)

\* trading_days, the default of both operations
TradingDays == 252

\* RISK_FREE_RATE = 0.02, in log units: 0.02 / (ln 2 / LogUnit) = 0.346 = 9 / 26
RiskFreeNum == 9
RiskFreeDen == 26

\* sum over a of x[a] * y[a]
Dot(x, y) == SumSeq([a \in 1..Len(x) |-> x[a] * y[a]])

\* the quadratic form x' c x
QuadraticForm(x, c) == Dot(x, [a \in 1..Len(x) |-> Dot(c[a], x)])

\* excess / volatility in hundredths, the excess being num / den and the
\* volatility the square root of rad over the same den; a division of floats
\* by zero returns inf, -inf or nan and raises nothing
SharpeRatio(num, rad) ==
    IF rad = 0
    THEN (IF num > 0 THEN PosInf ELSE IF num < 0 THEN NegInf ELSE NaN)
    ELSE (100 * num) \div (RiskFreeDen * ISqrt(rad))

\* Lines 122-124 for the unnormalized draw u (in quarters), whose weights are
\* u / sum(u): return and volatility in hundredths of a log unit, weights in
\* hundredths.
SampledPortfolio(mu, c, u) ==
    LET total == SumSeq(u)
        rad == TradingDays * QuadraticForm(u, c)
    IN [weights |-> [a \in 1..Len(u) |-> (100 * u[a]) \div total],
        port_return |-> (100 * TradingDays * Dot(mu, u)) \div total,
        port_volatility |-> (100 * ISqrt(rad)) \div total,
        sharpe_ratio |->
            SharpeRatio(TradingDays * Dot(mu, u) * RiskFreeDen - RiskFreeNum * total,
                        rad)]

\* np.random.random(n) from state s
UniformArray(s, n) == [a \in 1..n |-> UniformOf(RngAfter(s, a))]

\* The four outputs of generate_random_portfolios from the sequence of the
\* sampled portfolios, in draw order, and the generator state afterwards
FrontierOutputs(draws, s) ==
    [raised |-> "none",
     returns |-> [i \in 1..Len(draws) |-> draws[i].port_return],
     volatilities |-> [i \in 1..Len(draws) |-> draws[i].port_volatility],
     weights |-> [i \in 1..Len(draws) |-> draws[i].weights],
     sharpe_ratios |-> [i \in 1..Len(draws) |-> draws[i].sharpe_ratio],
     rng |-> s]

\* a loop that stores the draws in reverse order
SampleLoopMutReverse(mu, c, K, s) ==
    [i \in 1..K |->
        SampledPortfolio(mu, c, UniformArray(RngAfter(s, (K - i) * Len(mu)), Len(mu)))]

\* The loop of lines 116-130 for the statistics mu and c, from state s
SampleLoop(mu, c, K, s) ==
    [i \in 1..K |->
        SampledPortfolio(mu, c, UniformArray(RngAfter(s, (i - 1) * Len(mu)), Len(mu)))]

\* generate_random_portfolios(r, K) with the generator in state s
GenerateRandomPortfolios(r, K, s) ==
    FrontierOutputs(SampleLoop(MeanReturns(r), CovMatrix(r), K, s),
                    RngAfter(s, K * Len(r[1])))

\* calculate_portfolio_stats(r, w), the weights w in hundredths
CalculatePortfolioStats(r, w) ==
    IF ~SumsToOne(w)
    THEN [raised |-> "ValueError: Weights must sum to 1",
          port_return |-> 0, port_volatility |-> 0, sharpe_ratio |-> 0]
    ELSE IF Len(w) # Len(r[1])
    THEN [raised |-> "ValueError: Number of weights must match number of assets",
          port_return |-> 0, port_volatility |-> 0, sharpe_ratio |-> 0]
    ELSE LET mu == MeanReturns(r)
             rad == TradingDays * QuadraticForm(w, CovMatrix(r))
         IN [raised |-> "none",
             port_return |-> TradingDays * Dot(mu, w),
             port_volatility |-> ISqrt(rad),
             sharpe_ratio |->
                SharpeRatio(TradingDays * Dot(mu, w) * RiskFreeDen - RiskFreeNum * 100,
                            rad)]

\* the largest sample count K
MaxPortfolios == 2

\* weight vectors given to calculate_portfolio_stats
StatsWeights == { <<100>>, <<95>>, <<60, 40>>, <<60, 30>>, <<50, 30, 20>> }

FrontierRaised(e) ==
    [raised |-> e, returns |-> <<>>, volatilities |-> <<>>, weights |-> <<>>,
     sharpe_ratios |-> <<>>]

\* the outputs without the generator state
FrontierResult(g) ==
    [raised |-> g.raised, returns |-> g.returns, volatilities |-> g.volatilities,
     weights |-> g.weights, sharpe_ratios |-> g.sharpe_ratios]

\* main.py lines 49 and 66: the returns of the table, then the frontier
FrontierCall(K) ==
    /\ pc = "idle"
    /\ data # <<>>
    /\ \E r \in {CalculateDailyReturns(data)} :
          IF r.raised # "none"
          THEN frontier' = FrontierRaised(ErrPrices) /\ UNCHANGED rng
          ELSE \E g \in {GenerateRandomPortfolios(r.value, K, rng)} :
                  /\ frontier' = FrontierResult(g)
                  /\ rng' = g.rng
    /\ frontier_call' = [num_portfolios |-> K, rng |-> rng]
    /\ UNCHANGED <<pc, args, rng_at_call, drawn, locals, outcome, first_run, stats,
                   confidence_level, risk, analysis, fetch, workflow>>

\* main.py lines 49 and 51: the returns of the table, then the statistics
StatsCall(w) ==
    /\ pc = "idle"
    /\ data # <<>>
    /\ LET r == CalculateDailyReturns(data)
       IN stats' = IF r.raised # "none"
                   THEN [raised |-> ErrPrices, port_return |-> 0,
                         port_volatility |-> 0, sharpe_ratio |-> 0]
                   ELSE CalculatePortfolioStats(r.value, w)
    /\ UNCHANGED <<pc, args, rng, rng_at_call, drawn, locals, outcome, first_run,
                   frontier, confidence_level, risk, analysis, frontier_call, fetch,
                   workflow>>

InitFrontier ==
    /\ pc = "idle"
    /\ data \in SimTables
    /\ weights = <<>> /\ sims = 0 /\ time_horizon = 0 /\ random_seed = NoSeed
    /\ NoLocals
    /\ rng \in 0..(RngStates - 1)
    /\ rng_at_call = rng
    /\ first_run = <<>>
    /\ NoOthers

NextFrontier ==
    \/ \E K \in 0..MaxPortfolios : FrontierCall(K)
    \/ \E w \in StatsWeights : StatsCall(w)

SpecFrontier == InitFrontier /\ [][NextFrontier]_vars

-----------------------------------------------------------------------------
(* Repeated simulations of one input, other users of the generator between *)

NoRun == <<>>

RealSeeds == Seeds \ {NoSeed}

\* the arguments other than the seed are fixed; the weights fit the table
InitRepro ==
    /\ pc = "idle"
    /\ data \in SimTables
    /\ weights \in {w \in WeightVectors : Len(w) = Len(data[1])}
    /\ sims \in 1..MaxSims
    /\ time_horizon \in 1..MaxHorizon
    /\ random_seed = NoSeed
    /\ NoLocals
    /\ rng \in 0..(RngStates - 1)
    /\ rng_at_call = rng
    /\ first_run = [seed \in RealSeeds |-> NoRun]
    /\ NoOthers

\* line 75 seen from the caller, which keeps its arguments for the next call
\* and remembers what the first call with each seed returned
MCFinishRecorded ==
    /\ pc = "done"
    /\ pc' = "idle"
    /\ first_run' =
          IF outcome = "returned" /\ random_seed # NoSeed
                /\ first_run[random_seed] = NoRun
          THEN [first_run EXCEPT ![random_seed] =
                    <<portfolio_paths, price_paths>>]
          ELSE first_run
    /\ ClearLocals
    /\ random_seed' = NoSeed
    /\ rng_at_call' = rng
    /\ UNCHANGED <<data, weights, sims, time_horizon, rng, others>>

\* the largest frontier sampled between two simulations
MaxBetween == 1

NextRepro ==
    \/ \E seed \in Seeds : MCCall(data, weights, sims, time_horizon, seed)
    \/ MCRun
    \/ MCFinishRecorded
    \/ \E K \in 0..MaxBetween : FrontierCall(K)

SpecRepro == InitRepro /\ [][NextRepro]_vars

-----------------------------------------------------------------------------
(* monte_carlo.py: calculate_value_at_risk and calculate_expected_shortfall *)

\* percents are held in thousandths
PercentUnit == 1000

\* a percentile is held in units of 1 / PercentileScale
PercentileScale == 100 * PercentUnit

\* 100 * (1 - confidence_level) in thousandths of a percent, for a confidence
\* level in hundredths.  The subtraction is a floating-point one:
\* 100 * (1 - 0.95) is 5.000000000000004, above 5, and the excess is held as
\* one thousandth; 0, 0.5 and 1 give exactly 100, 50 and 0.
LowerTailPercent(c) ==
    (100 - c) * PercentUnit + (IF c = 95 THEN 1 ELSE 0)

RECURSIVE Insert(_, _)
Insert(x, s) ==
    IF s = <<>> THEN <<x>>
    ELSE IF x <= Head(s) THEN <<x>> \o s
    ELSE <<Head(s)>> \o Insert(x, Tail(s))

RECURSIVE SortAscending(_)
SortAscending(s) == IF s = <<>> THEN <<>> ELSE Insert(Head(s), SortAscending(Tail(s)))

HasNaN(v) == \E k \in 1..Len(v) : v[k] = NaN

\* the linear interpolation of np.percentile between the order statistics
\* around the virtual index h / PercentileScale, h = (N - 1) * q
Interpolate(sorted, h) ==
    LET lo == h \div PercentileScale
        frac == h % PercentileScale
        below == sorted[lo + 1]
        above == sorted[IF lo + 2 <= Len(sorted) THEN lo + 2 ELSE Len(sorted)]
    IN below * PercentileScale + (above - below) * frac

\* np.percentile(v, q) for a non-empty v: nan when v holds a nan
Percentile(v, q) ==
    IF HasNaN(v) THEN NaN
    ELSE Interpolate(SortAscending(v), (Len(v) - 1) * q)

\* what np.percentile does with an empty array depends on the numpy release:
\* it returns nan (with a warning), or it raises IndexError
EmptyPercentileOutcomes == {"nan", "IndexError"}

\* calculate_value_at_risk
CalculateValueAtRisk(paths, c, onEmpty) ==
    LET final_values == paths[Len(paths)]
    IN IF final_values = <<>>
       THEN (IF onEmpty = "nan" THEN [raised |-> "none", value |-> NaN]
             ELSE [raised |-> "IndexError", value |-> 0])
       ELSE [raised |-> "none",
             value |-> Percentile(final_values, LowerTailPercent(c))]

\* final_values[final_values <= var]: a comparison with nan is false
RECURSIVE AtMost(_, _)
AtMost(v, var) ==
    IF v = <<>> THEN <<>>
    ELSE IF var # NaN /\ Head(v) # NaN /\ Head(v) * PercentileScale <= var
         THEN <<Head(v)>> \o AtMost(Tail(v), var)
         ELSE AtMost(Tail(v), var)

\* The sum and the quotient of ndarray.mean() are floating-point operations,
\* each rounded to the nearest number of the format, ties to the even
\* mantissa.  The format of the model has MantissaBits significant bits (a
\* double has 53): with five bits 13 + 13 + 13 is 40 and 40 / 3 is 13.5, as
\* with 53 bits 0.1 + 0.1 + 0.1 is 0.30000000000000004 and a third of it
\* 0.10000000000000002.
MantissaBits == 5

\* the integer nearest to a / b, the even one of two equally near
RoundHalfEven(a, b) ==
    LET q == a \div b
        r == a % b
    IN IF 2 * r < b THEN q
       ELSE IF 2 * r > b THEN q + 1
       ELSE IF q % 2 = 0 THEN q ELSE q + 1

\* the exponents of the numbers the model rounds
Exponents == (MantissaBits - 6)..6

\* the float nearest to a / b > 0, in units of 1 / PercentileScale; with e
\* the exponent of a / b, the floats around it are 2 ^ (e + 1 - MantissaBits)
\* apart
FloatRound(a, b) ==
    LET e == CHOOSE x \in Exponents :
                 IF x >= 0
                 THEN b * Pow2(x) <= a /\ a < 2 * b * Pow2(x)
                 ELSE b <= a * Pow2(-x) /\ a * Pow2(-x) < 2 * b
        down == MantissaBits - 1 - e
    IN IF e >= 0
       THEN RoundHalfEven(a * Pow2(MantissaBits - 1), b * Pow2(e))
                * Pow2(e) * (PercentileScale \div Pow2(MantissaBits - 1))
       ELSE RoundHalfEven(a * Pow2(down), b) * (PercentileScale \div Pow2(down))

\* np.add.reduce of the values v (in units of 1 / PercentileScale) onto acc:
\* one rounded addition after the other
RECURSIVE FloatSum(_, _)
FloatSum(acc, v) ==
    IF v = <<>> THEN acc
    ELSE FloatSum(IF acc + Head(v) = 0 THEN 0
                  ELSE FloatRound(acc + Head(v), PercentileScale),
                  Tail(v))

\* ndarray.mean(), in units of 1 / PercentileScale: the rounded sum divided
\* by the count.  The mean of an empty selection is 0 / 0 = nan, returned with
\* a warning and no exception; a nan among the values makes the mean nan.
MeanOf(sel) ==
    IF sel = <<>> \/ HasNaN(sel) THEN NaN
    ELSE LET total == FloatSum(0, [k \in 1..Len(sel) |-> sel[k] * PercentileScale])
         IN IF total = 0 THEN 0 ELSE FloatRound(total, PercentileScale * Len(sel))

\* calculate_expected_shortfall
CalculateExpectedShortfall(paths, c, onEmpty) ==
    LET var == CalculateValueAtRisk(paths, c, onEmpty)
    IN IF var.raised # "none"
       THEN [raised |-> var.raised, var |-> 0, selected |-> <<>>, es |-> 0]
       ELSE [raised |-> "none", var |-> var.value,
             selected |-> AtMost(paths[Len(paths)], var.value),
             es |-> MeanOf(AtMost(paths[Len(paths)], var.value))]

\* confidence_level = 0.95, the default of both risk measures, in hundredths
DefaultConfidence == 95

\* np.min and np.max of a non-empty array: nan when it holds a nan
MinOf(v) == IF HasNaN(v) THEN NaN ELSE SortAscending(v)[1] * PercentileScale
MaxOf(v) == IF HasNaN(v) THEN NaN ELSE SortAscending(v)[Len(v)] * PercentileScale

\* np.median: the middle order statistic, or the mean of the two middle ones,
\* which is the linear interpolation at the virtual index (N - 1) / 2
MedianOf(v) == IF v = <<>> THEN NaN ELSE Percentile(v, 50 * PercentUnit)

\* np.std, the population standard deviation sqrt(mean((x - mean(x)) ^ 2)),
\* which is sqrt(N * sum(x ^ 2) - sum(x) ^ 2) / N
StdOf(v) ==
    IF v = <<>> \/ HasNaN(v) THEN NaN
    ELSE (ISqrt((Len(v) * SumSeq([k \in 1..Len(v) |-> v[k] * v[k]])
                    - SumSeq(v) * SumSeq(v)) * PercentUnit * PercentUnit)
             * (PercentileScale \div PercentUnit)) \div Len(v)

ErrZeroSize ==
    "ValueError: zero-size array to reduction operation minimum which has no identity"

\* analyze_simulation_results: the entries of the dictionary are computed in
\* the order of lines 121-131.  On an empty terminal row the mean, the median
\* and the standard deviation are nan (with warnings) and np.min raises.
AnalyzeSimulationResults(paths, onEmpty) ==
    LET final_values == paths[Len(paths)]
    IN IF final_values = <<>>
       THEN [NoAnalysis EXCEPT !.raised = ErrZeroSize]
       ELSE [raised |-> "none",
             mean |-> MeanOf(final_values),
             median |-> MedianOf(final_values),
             std_dev |-> StdOf(final_values),
             min |-> MinOf(final_values),
             max |-> MaxOf(final_values),
             var_95 |-> CalculateValueAtRisk(paths, DefaultConfidence, onEmpty).value,
             cvar_95 |-> CalculateExpectedShortfall(paths, DefaultConfidence, onEmpty).es,
             percentile_5 |-> Percentile(final_values, 5 * PercentUnit),
             percentile_25 |-> Percentile(final_values, 25 * PercentUnit),
             percentile_75 |-> Percentile(final_values, 75 * PercentUnit),
             percentile_95 |-> Percentile(final_values, 95 * PercentUnit)]

\* the longest terminal row
MaxTerminal == 3

TerminalValues == {1, 2, 13, NaN}

TerminalRows == UNION {SeqsOfLen(TerminalValues, k) : k \in 0..MaxTerminal}

\* paths of one or two time steps with the given terminal row
PathsEndingIn(row) ==
    {[i \in 1..T |-> IF i = T THEN row ELSE [k \in 1..Len(row) |-> 1]] : T \in 1..2}

RiskPaths == UNION {PathsEndingIn(row) : row \in TerminalRows}

ConfidenceLevels == {0, 50, 95, 100}

InitRisk ==
    /\ pc = "idle"
    /\ NoArguments
    /\ returns = <<>> /\ mean_returns = <<>> /\ cov_matrix = <<>> /\ chol = <<>>
    /\ retried = FALSE /\ random_numbers = <<>> /\ daily_returns = <<>>
    /\ price_paths = <<>> /\ t = 0 /\ outcome = "none" /\ drawn = 0
    /\ portfolio_paths \in RiskPaths
    /\ rng = 0
    /\ rng_at_call = 0
    /\ first_run = <<>>
    /\ frontier = [raised |-> NotCalled, returns |-> <<>>, volatilities |-> <<>>,
                   weights |-> <<>>, sharpe_ratios |-> <<>>]
    /\ stats = [raised |-> NotCalled, port_return |-> 0, port_volatility |-> 0,
                sharpe_ratio |-> 0]
    /\ confidence_level \in ConfidenceLevels
    /\ risk = [raised |-> NotCalled, var |-> 0, selected |-> <<>>, es |-> 0]
    /\ analysis = NoAnalysis
    /\ frontier_call = NoFrontierCall
    /\ fetch = NoFetch
    /\ workflow = NoWorkflow
    /\ written = <<>>

ExpectedShortfallCall(onEmpty) ==
    /\ pc = "idle"
    /\ risk' = CalculateExpectedShortfall(portfolio_paths, confidence_level, onEmpty)
    /\ pc' = "done"
    /\ UNCHANGED <<args, rng, rng_at_call, drawn, locals, outcome, first_run,
                   frontier, stats, confidence_level, analysis, frontier_call,
                   fetch, workflow>>

\* main.py line 96
AnalyzeCall(onEmpty) ==
    /\ pc = "idle"
    /\ analysis' = AnalyzeSimulationResults(portfolio_paths, onEmpty)
    /\ pc' = "done"
    /\ UNCHANGED <<args, rng, rng_at_call, drawn, locals, outcome, first_run,
                   frontier, stats, confidence_level, risk, frontier_call, fetch,
                   workflow>>

NextRisk ==
    \/ \E onEmpty \in EmptyPercentileOutcomes : ExpectedShortfallCall(onEmpty)
    \/ \E onEmpty \in EmptyPercentileOutcomes : AnalyzeCall(onEmpty)

SpecRisk == InitRisk /\ [][NextRisk]_vars

-----------------------------------------------------------------------------
(* Properties.                                                             *)

AssetCount == Len(data[1])

AllPricesPositive ==
    \A i \in 1..Len(data) : \A a \in 1..Len(data[i]) : data[i][a] > 0

\* the input of the running simulation is valid
ValidInput ==
    /\ AllPricesPositive
    /\ Len(weights) = AssetCount
    /\ SumsToOne(weights)

Returned == pc = "done" /\ outcome = "returned"

\* an array has the shape rows x columns
Is2D(x, rows, cols) ==
    /\ Len(x) = rows
    /\ \A i \in 1..rows : Len(x[i]) = cols

\* an array has the shape d1 x d2 x d3
Is3D(x, d1, d2, d3) ==
    /\ Len(x) = d1
    /\ \A i \in 1..d1 : Is2D(x[i], d2, d3)

\* C1 (as claimed): a simulation on valid input whose covariance matrix could
\* be factorized returns, for every S >= 1 and T >= 1, a PortfolioPath of
\* T rows and S columns and a PricePath of dimensions T x S x n.
C1_ShapesAsClaimed ==
    (pc = "done" /\ ValidInput /\ outcome # ErrNotPositiveDefinite)
        => /\ outcome = "returned"
           /\ Is2D(portfolio_paths, time_horizon, sims)
           /\ Is3D(price_paths, time_horizon, sims, AssetCount)

\* C2 (as claimed): wherever the returned PortfolioPath has the claimed shape
\* T x S, its entry [t][s] is the sum over the assets a of
\* weights[a] * PricePath[t][s][a].
C2_WeightedSumOverAssets ==
    (Returned /\ Is2D(portfolio_paths, time_horizon, sims))
        => \A i \in 1..time_horizon : \A j \in 1..sims :
              portfolio_paths[i][j] =
                SumSeq([a \in 1..AssetCount |-> weights[a] * price_paths[i][j][a]])

LastRow(x) == x[Len(x)]

\* C3 (as claimed): every value in the last row of the returned PortfolioPath
\* is strictly positive, for every accepted weight vector, negative components
\* included.
C3_TerminalPositiveAnyWeights ==
    Returned => \A k \in 1..Len(LastRow(portfolio_paths)) :
                    LastRow(portfolio_paths)[k] > 0

\* C3 (amended): when no weight is negative, every value of the returned
\* PortfolioPath, its last row included, is strictly positive.
C3_TerminalPositive ==
    (Returned /\ \A a \in 1..Len(weights) : weights[a] >= 0)
        => \A i \in 1..Len(portfolio_paths) : \A k \in 1..Len(portfolio_paths[i]) :
              portfolio_paths[i][k] > 0

\* a simulation over more than one time step returned for weights without a
\* negative component
C3_Witness ==
    /\ Returned
    /\ time_horizon >= 2
    /\ \A a \in 1..Len(weights) : weights[a] >= 0
    /\ \E i \in 1..Len(price_paths) : \E j \in 1..sims : \E a \in 1..AssetCount :
          price_paths[i][j][a] # price_paths[1][j][a]

\* C4 (as claimed): a simulation that fails on invalid input has drawn no
\* random number and leaves the generator in the state it had at the call.
C4_FailureLeavesGenerator ==
    (pc = "done" /\ outcome \in {ErrWeightCount, ErrWeightSum, ErrPrices})
        => drawn = 0 /\ rng = rng_at_call

\* C8 (as claimed): when the first factorization fails, the retry on the
\* rebuilt matrix succeeds, so no simulation on a table of positive prices
\* ends in an error of the factorization.
C8_RetrySucceeds ==
    (retried /\ AllPricesPositive) => outcome # ErrNotPositiveDefinite

\* C10 (as claimed): no sampled and no caller-supplied portfolio of volatility
\* zero comes back with a Sharpe ratio: the operation raises instead.
C10_ZeroVolatilityRaises ==
    /\ frontier.raised = "none" =>
          \A i \in 1..Len(frontier.volatilities) : frontier.volatilities[i] # 0
    /\ stats.raised = "none" => stats.port_volatility # 0

\* C5: a seeded simulation that returns, returns the PortfolioPath and the
\* PricePath that the first simulation with the same arguments and the same
\* seed returned, whatever used the generator in between.
C5_SeededCallsAgree ==
    (Returned /\ random_seed # NoSeed /\ first_run[random_seed] # NoRun)
        => /\ portfolio_paths = first_run[random_seed][1]
           /\ price_paths = first_run[random_seed][2]

\* a seeded simulation over two or more steps returned a second time; it was
\* called with the generator in another state than the one the seed gives,
\* after a frontier was sampled
C5_Witness ==
    /\ Returned
    /\ random_seed # NoSeed
    /\ first_run[random_seed] # NoRun
    /\ rng_at_call # random_seed
    /\ time_horizon >= 2
    /\ frontier.raised = "none"
    /\ Len(frontier.returns) > 0

\* C9 (as claimed): when no terminal value is <= VaR(c), the expected
\* shortfall that is returned is VaR(c) itself and is a number, or the call
\* raises.
C9_EmptyTailHandled ==
    (pc = "done" /\ risk.raised = "none" /\ risk.selected = <<>>)
        => risk.es = risk.var /\ risk.es # NaN

\* C6: calculate_daily_returns raises its error exactly for the tables that
\* hold a price <= 0, and then returns no matrix.
C6_RejectsExactlyNonPositive ==
    pc = "done" =>
        /\ (outcome = ErrPrices) <=> ~AllPricesPositive
        /\ outcome = ErrPrices => returns = <<>>
        /\ outcome # ErrPrices => outcome = "returned"

\* a table with a zero price, no negative price, was rejected
C6_Witness ==
    /\ pc = "done"
    /\ outcome = ErrPrices
    /\ \E i \in 1..Len(data) : \E a \in 1..Len(data[i]) : data[i][a] = 0
    /\ \A i \in 1..Len(data) : \A a \in 1..Len(data[i]) : data[i][a] >= 0

\* C7: for a table of r >= 1 rows of positive prices the result has r - 1
\* rows and the same columns, row i holding the log return of input row i + 1
\* against input row i.
C7_LogReturnsOfSuccessiveRows ==
    (pc = "done" /\ AllPricesPositive) =>
        /\ outcome = "returned"
        /\ Is2D(returns, Len(data) - 1, AssetCount)
        /\ \A i \in 1..(Len(data) - 1) : \A a \in 1..AssetCount :
              returns[i][a] =
                LogUnit * (Log2Exact(data[i + 1][a]) - Log2Exact(data[i][a]))

\* a table of three rows whose prices move gave two rows of returns
C7_Witness ==
    /\ pc = "done"
    /\ outcome = "returned"
    /\ Len(data) = 3
    /\ Len(returns) = 2
    /\ returns[1][1] # 0
    /\ returns[2][1] # returns[1][1]

\* C11 (as claimed): on a non-empty terminal row the entries var_95 and
\* percentile_5 of analyze_simulation_results are the same number, the value of
\* calculate_value_at_risk at confidence 0.95.
C11_VarIsFifthPercentile ==
    (pc = "done" /\ analysis.raised = "none")
        => /\ analysis.var_95 = analysis.percentile_5
           /\ \A o \in EmptyPercentileOutcomes :
                 analysis.var_95 =
                     CalculateValueAtRisk(portfolio_paths, DefaultConfidence, o).value

\* C12 (as claimed): when some terminal value is <= VaR(c), the expected
\* shortfall that is returned is at most VaR(c), and the values it averages
\* are exactly the terminal values that are <= VaR(c).
C12_ShortfallAtMostVaR ==
    (pc = "done" /\ risk.raised = "none" /\ risk.selected # <<>>)
        => /\ risk.es <= risk.var
           /\ risk.es = MeanOf(risk.selected)
           /\ LET final_values == portfolio_paths[Len(portfolio_paths)]
              IN risk.selected =
                    SelectSeq(final_values,
                              LAMBDA x : x # NaN /\ x * PercentileScale <= risk.var)

\* the i-th draw of the last sampling: the uniform numbers the generator gave
\* for it, counted from the state in which the sampling began
DrawOf(i) ==
    UniformArray(RngAfter(frontier_call.rng, (i - 1) * AssetCount), AssetCount)

\* C13: a sampling of K portfolios that returns holds exactly K returns, K
\* volatilities, K Sharpe ratios and K weight vectors, the i-th of each made
\* from the i-th draw; with K = 0 and a table of positive prices it returns,
\* and all four are empty.
C13_ParallelOutputsInDrawOrder ==
    /\ frontier.raised = "none" =>
          /\ Len(frontier.returns) = frontier_call.num_portfolios
          /\ Len(frontier.volatilities) = frontier_call.num_portfolios
          /\ Len(frontier.sharpe_ratios) = frontier_call.num_portfolios
          /\ Len(frontier.weights) = frontier_call.num_portfolios
          /\ \A i \in 1..frontier_call.num_portfolios :
                LET u == DrawOf(i)
                    p == SampledPortfolio(MeanReturns(CalculateDailyReturns(data).value),
                                          CovMatrix(CalculateDailyReturns(data).value), u)
                IN /\ frontier.weights[i] =
                          [a \in 1..AssetCount |-> (100 * u[a]) \div SumSeq(u)]
                   /\ frontier.returns[i] = p.port_return
                   /\ frontier.volatilities[i] = p.port_volatility
                   /\ frontier.sharpe_ratios[i] = p.sharpe_ratio
    /\ (frontier.raised # NotCalled /\ frontier_call.num_portfolios = 0
            /\ AllPricesPositive)
          => /\ frontier.raised = "none"
             /\ frontier.returns = <<>> /\ frontier.volatilities = <<>>
             /\ frontier.sharpe_ratios = <<>> /\ frontier.weights = <<>>

\* two portfolios were sampled from different draws of a two-asset table
C13_Witness ==
    /\ frontier.raised = "none"
    /\ frontier_call.num_portfolios = 2
    /\ AssetCount = 2
    /\ DrawOf(1) # DrawOf(2)
    /\ frontier.weights[1] # frontier.weights[2]
    /\ frontier.returns[1] # frontier.returns[2]

-----------------------------------------------------------------------------
(* portfolio_analysis.py: fetch_commodity_data                             *)

\* the largest max_retries; 3 is the default of the operation
MaxRetries == 3

\* the values of max_retries: range(max_retries) is empty for 0
RetryCounts == 0..MaxRetries

\* what download(...)['Adj Close'] can hand back: a table (without rows, with
\* rows, with rows that hold a nan), or an exception
DownloadedTables == { <<>>, << <<1>>, <<2>> >>, << <<NaN>>, <<2>> >>, << <<NaN>> >> }

ErrNoData == "ValueError: No data returned from yfinance"

DownloadErrors == {"KeyError: 'Adj Close'", "TimeoutError"}

DownloadOutcomes ==
    {[raised |-> "none", table |-> d] : d \in DownloadedTables}
        \cup {[raised |-> e, table |-> <<>>] : e \in DownloadErrors}

\* data.empty
IsEmptyTable(d) == d = <<>>

\* lines 28-32: what one pass through the try block raises, "none" when it
\* returns the table
AttemptRaises(o) ==
    IF o.raised # "none" THEN o.raised
    ELSE IF IsEmptyTable(o.table) THEN ErrNoData
    ELSE "none"

ErrFetch == "ConnectionError: Failed to fetch data"

\* line 11 and line 27: the call and the start of the loop
FetchCall(m) ==
    /\ fetch.pc = "idle"
    /\ fetch' = [pc |-> "loop", max_retries |-> m, attempt |-> 0, downloads |-> 0,
                 result |-> "none", table |-> <<>>, log |-> <<>>, error |-> "none"]
    /\ UNCHANGED <<pc, args, rng, rng_at_call, drawn, locals, outcome, first_run,
                   frontier, stats, confidence_level, risk, analysis, frontier_call,
                   workflow>>

\* lines 27-36: one iteration of the loop over range(max_retries), the
\* download answering with o
FetchAttempt(o) ==
    /\ fetch.pc = "loop"
    /\ fetch.attempt < fetch.max_retries
    /\ LET e == AttemptRaises(o)
           seen == [fetch EXCEPT !.downloads = @ + 1, !.log = Append(@, e)]
       IN fetch' =
             IF e = "none"
             THEN [seen EXCEPT !.pc = "done", !.result = "table",
                               !.table = DropNa(o.table)]
             ELSE IF fetch.attempt = fetch.max_retries - 1
             THEN [seen EXCEPT !.pc = "done", !.result = ErrFetch, !.error = e]
             ELSE [seen EXCEPT !.attempt = @ + 1]
    /\ UNCHANGED <<pc, args, rng, rng_at_call, drawn, locals, outcome, first_run,
                   frontier, stats, confidence_level, risk, analysis, frontier_call,
                   workflow>>

\* the loop is over without a return and without a raise: the end of the
\* function body is reached and the call returns None
FetchFallsThrough ==
    /\ fetch.pc = "loop"
    /\ fetch.attempt >= fetch.max_retries
    /\ fetch' = [fetch EXCEPT !.pc = "done", !.result = "None"]
    /\ UNCHANGED <<pc, args, rng, rng_at_call, drawn, locals, outcome, first_run,
                   frontier, stats, confidence_level, risk, analysis, frontier_call,
                   workflow>>

NextFetch ==
    \/ \E m \in RetryCounts : FetchCall(m)
    \/ \E o \in DownloadOutcomes : FetchAttempt(o)
    \/ FetchFallsThrough

SpecFetch == Init /\ [][NextFetch]_vars

\* C14 (as claimed): a finished fetch returned a table or raised
\* ConnectionError; it made at most max_retries downloads; it returned the
\* table of the first download that brought data, which was its last
\* download; it raised exactly when every one of max_retries downloads failed.
C14_TableOrConnectionError ==
    fetch.pc = "done" =>
        /\ fetch.result \in {"table", ErrFetch}
        /\ fetch.downloads <= (IF fetch.max_retries > 0 THEN fetch.max_retries ELSE 0)
        /\ Len(fetch.log) = fetch.downloads
        /\ \A k \in 1..(fetch.downloads - 1) : fetch.log[k] # "none"
        /\ fetch.result = "table" <=> fetch.log[fetch.downloads] = "none"
        /\ fetch.result = ErrFetch => fetch.downloads = fetch.max_retries

\* the path recurrence is running, or it ran and the call returned
PathsBuilt == pc = "loop" \/ Returned

\* row i (zero-based) of the price path, and of the simulated returns
PriceRow(i) == price_paths[i + 1]
ReturnRow(i) == daily_returns[i + 1]

\* the rows written so far are 0, 1, ..., each once, in this order, none of
\* them outside 0..T-1
WrittenInTimeOrder ==
    /\ Len(written) <= time_horizon
    /\ Len(price_paths) = time_horizon
    /\ \A k \in 1..Len(written) : written[k] = k - 1

\* a written row holds what the recurrence gives: row 0 the last observed
\* price of each asset for every simulation index, row i > 0 the row before
\* times exp(return[i]), per simulation index and asset; a row not yet written
\* holds the zeros of np.zeros_like
RowsFollowRecurrence ==
    \A i \in 0..(time_horizon - 1) : \A j \in 1..sims : \A a \in 1..AssetCount :
        PriceRow(i)[j][a] =
            IF i >= Len(written) THEN 0
            ELSE IF i = 0 THEN data[Len(data)][a] * PriceScale
            ELSE TimesExp(PriceRow(i - 1)[j][a], ReturnRow(i)[j][a])

C15_StateOfThePath ==
    /\ PathsBuilt => WrittenInTimeOrder /\ RowsFollowRecurrence
    /\ pc = "loop" => t = Len(written) /\ t >= 1
    /\ Returned => Len(written) = time_horizon

\* a step of the recurrence writes row t and no other row, and the
\* aggregation writes none
C15_StepOfThePath ==
    pc = "loop" =>
        /\ \A k \in 1..Len(written) : price_paths'[written[k] + 1] = PriceRow(written[k])
        /\ pc' = "loop" => written' = Append(written, t) /\ t < time_horizon
        /\ pc' # "loop" => written' = written /\ price_paths' = price_paths

\* C15: the price path is built in time order: row 0 from the last observed
\* prices, then rows 1..T-1 in increasing order, each written once as the row
\* before times exp(return[t]); a written row is never changed, all rows are
\* written before the aggregation, and no row outside 0..T-1 is touched.
C15_PathBuiltInTimeOrder ==
    [](C15_StateOfThePath) /\ [][C15_StepOfThePath]_vars

\* all three rows of a three-step path are written, each differing from the
\* row before
C15_Witness ==
    /\ Returned
    /\ time_horizon = 3
    /\ written = <<0, 1, 2>>
    /\ PriceRow(1) # PriceRow(0)
    /\ PriceRow(2) # PriceRow(1)
    /\ ReturnRow(1) # ReturnRow(2)

-----------------------------------------------------------------------------
(* main.py: run_portfolio_analysis                                         *)

\* the stages of the try block of lines 37-122, in the order of the text
Stages ==
    <<"fetch", "statistics", "frontier", "simulation", "risk", "visualization",
      "export">>

StageAfter(stage) ==
    IF stage = Stages[Len(Stages)] THEN "returned"
    ELSE Stages[1 + CHOOSE k \in 1..(Len(Stages) - 1) : Stages[k] = stage]

\* the stages that call fetch_commodity_data, the plotting functions or
\* export_to_excel
CollaboratorStages == {"fetch", "frontier", "visualization", "export"}

ErrCollaborator == "Exception raised by a collaborator"

\* line 48: equal weights 1 / len(COMMODITIES), in hundredths
EqualWeights(n) == [a \in 1..n |-> 100 \div n]

\* the parameters of monte_carlo_simulation (monte_carlo.py lines 8-12), the
\* number of positional arguments and the keywords of the call of lines 78-84
Parameters == <<"data", "weights", "sims", "time_horizon", "random_seed">>
PositionalArguments == 2
KeywordArguments == {"sims", "time_horizon", "progress_callback"}

\* Python binds the positional arguments to the first parameters and each
\* keyword to the parameter of its name, which must exist and be unbound
CallBinds ==
    /\ PositionalArguments <= Len(Parameters)
    /\ \A k \in KeywordArguments :
          \E i \in (PositionalArguments + 1)..Len(Parameters) : Parameters[i] = k

ErrUnexpectedKeyword ==
    "TypeError: monte_carlo_simulation() got an unexpected keyword argument"

\* the loop of lines 69-70 of monte_carlo.py from t to T
RECURSIVE PathLoop(_, _, _, _)
PathLoop(pp, dr, tt, T) ==
    IF tt >= T THEN pp ELSE PathLoop(StepBlock(pp, dr, tt), dr, tt + 1, T)

\* monte_carlo_simulation(d, w, sims = S, time_horizon = T) as one call, the
\* generator in state s
Simulation(d, w, S, T, s) ==
    LET failed(e) == [raised |-> e, portfolio_paths |-> <<>>, price_paths |-> <<>>,
                      rng |-> s]
        r == CalculateDailyReturns(d)
        f == Factorize(CovMatrix(r.value))
        rn == NormalArray(s, T, S, Len(w))
        dr == AddMean(MeanReturns(r.value), Tensordot(f.value, rn))
        pp == PathLoop(SetFirstBlock(ZerosLike(dr), d[Len(d)]), dr, 1, T)
        after == RngAfter(s, T * S * Len(w))
    IN IF Len(w) # Len(d[1]) THEN failed(ErrWeightCount)
       ELSE IF ~SumsToOne(w) THEN failed(ErrWeightSum)
       ELSE IF r.raised # "none" THEN failed(ErrPrices)
       ELSE IF f.raised # "none" THEN failed(ErrNotPositiveDefinite)
       ELSE IF ~TensordotShapesAgree(f.value, rn)
       THEN [failed(ErrShape) EXCEPT !.rng = after]
       ELSE [raised |-> "none", portfolio_paths |-> WeightedSum(pp, w),
             price_paths |-> pp, rng |-> after]

\* the variables a stage assigns
Current ==
    [data |-> data, weights |-> weights, stats |-> stats, frontier |-> frontier,
     frontier_call |-> frontier_call, rng |-> rng,
     portfolio_paths |-> portfolio_paths, price_paths |-> price_paths,
     analysis |-> analysis, error |-> "none"]

\* What the stage does: the values of the variables after it, and the
\* exception that ended it.  d is the table the data fetch hands back, ok
\* tells whether the collaborator of the stage succeeds.
RunStage(stage, d, ok, onEmpty) ==
    LET failed(e) == [Current EXCEPT !.error = e]
        r == CalculateDailyReturns(data)
        w == EqualWeights(Len(data[1]))
    IN CASE stage = "fetch" ->
              IF ok THEN [Current EXCEPT !.data = d] ELSE failed(ErrFetch)
         [] stage = "statistics" ->
              IF r.raised # "none" THEN [failed(ErrPrices) EXCEPT !.weights = w]
              ELSE LET st == CalculatePortfolioStats(r.value, w)
                   IN [Current EXCEPT !.weights = w, !.stats = st,
                                      !.error = st.raised]
         [] stage = "frontier" ->
              LET g == GenerateRandomPortfolios(r.value, MaxPortfolios, rng)
              IN [Current EXCEPT !.frontier = FrontierResult(g), !.rng = g.rng,
                                 !.frontier_call = [num_portfolios |-> MaxPortfolios,
                                                    rng |-> rng],
                                 !.error = IF ok THEN "none" ELSE ErrCollaborator]
         [] stage = "simulation" ->
              IF ~CallBinds THEN failed(ErrUnexpectedKeyword)
              ELSE LET m == Simulation(data, weights, workflow.sims,
                                       workflow.time_horizon, rng)
                   IN [Current EXCEPT !.portfolio_paths = m.portfolio_paths,
                                      !.price_paths = m.price_paths,
                                      !.rng = m.rng, !.error = m.raised]
         [] stage = "risk" ->
              LET an == AnalyzeSimulationResults(portfolio_paths, onEmpty)
              IN [Current EXCEPT !.analysis = an, !.error = an.raised]
         [] stage \in {"visualization", "export"} ->
              IF ok THEN Current ELSE failed(ErrCollaborator)

\* line 33: the call, with the configured MONTE_CARLO_SIMS and TIME_HORIZON
WorkflowCall(S, T) ==
    /\ pc = "idle"
    /\ workflow.stage = NotCalled
    /\ workflow' = [NoWorkflow EXCEPT !.stage = Stages[1], !.entered = <<Stages[1]>>,
                                      !.sims = S, !.time_horizon = T]
    /\ UNCHANGED <<pc, args, rng, rng_at_call, drawn, locals, outcome, first_run,
                   frontier, stats, confidence_level, risk, analysis, frontier_call,
                   fetch>>

\* lines 37-126: the stage runs; its exception, if any, is printed and
\* raised again by the except clause, else the next stage is entered, and
\* after the last one the results are returned
WorkflowStep(d, ok, onEmpty) ==
    /\ pc = "idle"
    /\ \E k \in 1..Len(Stages) : Stages[k] = workflow.stage
    /\ \E n \in {RunStage(workflow.stage, d, ok, onEmpty)} :
          /\ data' = n.data
          /\ weights' = n.weights
          /\ stats' = n.stats
          /\ frontier' = n.frontier
          /\ frontier_call' = n.frontier_call
          /\ rng' = n.rng
          /\ portfolio_paths' = n.portfolio_paths
          /\ price_paths' = n.price_paths
          /\ analysis' = n.analysis
          /\ workflow' =
                IF n.error # "none"
                THEN [workflow EXCEPT
                         !.stage = "raised", !.error = n.error,
                         !.collaborators_ok =
                             @ /\ (ok \/ workflow.stage \notin CollaboratorStages)]
                ELSE [workflow EXCEPT
                         !.stage = StageAfter(workflow.stage),
                         !.entered = IF StageAfter(workflow.stage) = "returned"
                                     THEN @ ELSE Append(@, StageAfter(workflow.stage))]
    /\ UNCHANGED <<pc, sims, time_horizon, random_seed, rng_at_call, drawn, returns,
                   mean_returns, cov_matrix, chol, retried, random_numbers,
                   daily_returns, t, written, outcome, first_run, confidence_level,
                   risk, fetch>>

NextWorkflow ==
    \/ \E S \in 1..MaxSims, T \in 1..MaxHorizon : WorkflowCall(S, T)
    \/ \E d \in SimTables, ok \in BOOLEAN, onEmpty \in EmptyPercentileOutcomes :
          WorkflowStep(d, ok, onEmpty)

SpecWorkflow == Init /\ [][NextWorkflow]_vars

\* the stages entered so far are the first stages of the fixed order
EnteredInOrder ==
    /\ Len(workflow.entered) <= Len(Stages)
    /\ \A k \in 1..Len(workflow.entered) : workflow.entered[k] = Stages[k]

\* C16 (as claimed): the stages are entered in the fixed order, and a run
\* whose collaborators all succeeded on a table of positive prices does not
\* end in an exception: the call of monte_carlo_simulation binds its
\* arguments, so the run goes on to the risk analysis and to the return.
C16_WorkflowReachesTheEnd ==
    /\ EnteredInOrder
    /\ ~(/\ workflow.stage = "raised"
          /\ workflow.collaborators_ok
          /\ data # <<>>
          /\ AllPricesPositive)

====
